---- MODULE Spec2Model ----
(***************************************************************************)
(* Model of the `everest run` session controller                           *)
(* (src/everest/bin/everest_script.py) together with the detached job and  *)
(* the persisted StatusRecord it coordinates through.                      *)
(*                                                                         *)
(* Several independent CLI invocations (OS processes) share one            *)
(* JobIdentity: one output directory, one StatusRecord file, one liveness  *)
(* probe.  Every statement of run_everest / _run_everest that touches      *)
(* shared state is one atomic step of the invoking CLI.                    *)
(***************************************************************************)
EXTENDS Integers, Sequences, FiniteSets, TLC

\* ------------------------------------------------------------------ bounds
\* Total number of `everest run` invocations in one behaviour.
MaxRuns == 2
\* Sleep between two polls of wait_for_server (time units).
PollInterval == 300

\* --------------------------------------------------------------- constants
\* wait_for_server(options.config, timeout=600, context=context)
Timeout == 600

\* The concurrently usable terminals / CLI processes.
CLIs == {"cli1", "cli2"}
\* Detached job processes, one per start_server call.
Jobs == 1..MaxRuns
NoJob == 0

\* ServerStatus (everest.detached)
never_run == "never_run"
starting == "starting"
running == "running"
completed == "completed"
failed == "failed"
stopped == "stopped"
ServerStatus == {never_run, starting, running, completed, failed, stopped}
Terminal == {completed, failed, stopped}
Active == {starting, running}

\* StatusRecord.message: string | null
NoMessage == "None"
Messages == {"msg"}
AnyMessage == Messages \cup {NoMessage}

StatusRecord == [status : ServerStatus, message : AnyMessage]
FreshRecord == [status |-> never_run, message |-> NoMessage]
\* Marker for "this invocation has not read the record".
Unread == [status |-> "unread", message |-> NoMessage]

VARIABLES
    record,     \* the persisted StatusRecord at the JobIdentity's path
    outdir,     \* whether the output directory exists
    rolls,      \* how many times the output directory was rolled away
    jobs,       \* job id -> phase of the detached process
    storage,    \* CLIs that hold the storage open for writing
    runs,       \* invocations made so far
    failureMessages, \* the message values a failure writer may store
    cli,        \* per CLI process: options, locals, position, outcome
    fcall        \* one call of a configuration function: argument and result

vars == <<record, outdir, rolls, jobs, storage, runs, failureMessages, cli, fcall>>
world == <<record, outdir, rolls, jobs, storage>>

IdleCli == [pc |-> "idle", new_run |-> FALSE, kill |-> FALSE,
            server_state |-> Unread, context |-> NoJob,
            elapsed |-> 0, wait_result |-> "none", observed |-> Unread,
            exit |-> "none", raised |-> "none", out |-> <<>>, trace |-> <<>>]

\* The process has ended: its command line and its outcome remain visible,
\* its locals are gone.
Ended(r) == [IdleCli EXCEPT !.pc = "done", !.new_run = r.new_run, !.kill = r.kill,
                            !.observed = r.observed, !.exit = r.exit,
                            !.raised = r.raised, !.out = r.out]

\* Past the branch of run_everest: server_state is assigned anew before its
\* next read, so the command line and the position are what is carried on.
Branched(r, pc) == [IdleCli EXCEPT !.pc = pc, !.new_run = r.new_run]

\* What run_everest / _kill_everest print.
AlreadyRunningText == "An optimization is currently running"
KillRemovedText == "run --kill has been removed, use everest kill"

Say(c, text) == Append(cli[c].out, text)
Logged(c, call) == Append(cli[c].trace, call)

\* ------------------------------------------------- collaborators (interfaces)
\* server_is_running(config): the job process answers on its control channel.
ServerIsRunning == \E j \in Jobs : jobs[j] = "serving"

\* ServerLauncher: the record written before start_server returns.
ServerLauncherRecord == [status |-> starting, message |-> NoMessage]

\* The job id a new detached process gets.
NextJob == CHOOSE j \in Jobs : jobs[j] = "unborn" /\ \A k \in Jobs : k < j => jobs[k] # "unborn"

\* ReadinessWaiter: one poll of waitUntilReady after `elapsed` time units.
ReadinessWaiter(elapsed, timeout) ==
    IF ServerIsRunning THEN "ready"
    ELSE IF record.status = failed THEN "failed"
    ELSE IF elapsed >= timeout THEN "timedOut"
    ELSE "pending"

\* Monitor: attach returns once the record is terminal.
MonitorReturns == record.status \in Terminal

\* wait_for_context: returns once the launched context has ended.
ContextEnded(j) == jobs[j] = "exited"

\* report_on_previous_run: outcome of reporting the stored result.
ReportOutcome(r) == IF r.status = failed THEN "nonzero" ELSE "zero"

\* handle_keyboard_interrupt: stop waiting locally, report the job still active.
HandleKeyboardInterrupt(c) ==
    Ended([cli[c] EXCEPT !.raised = "SystemExit", !.exit = "zero",
                         !.out = Say(c, "still running in the background")])

\* Python: an uncaught KeyboardInterrupt ends the process with a failure status.
DefaultKeyboardInterrupt(c) ==
    Ended([cli[c] EXCEPT !.raised = "KeyboardInterrupt", !.exit = "nonzero"])

\* Python: the exit status of `raise SystemExit(arg)`: None is success, a
\* string is printed and the status is 1.
SystemExitCode(arg) == IF arg = NoMessage THEN "zero" ELSE "nonzero"

\* ------------------------------------------------------------------- Init
InitWorld ==
    /\ record = FreshRecord
    /\ outdir = FALSE
    /\ rolls = 0
    /\ jobs = [j \in Jobs |-> "unborn"]
    /\ storage = {}
    /\ runs = 0
    /\ cli = [c \in CLIs |-> IdleCli]

\* No configuration function is being called.
NoCall == [fn |-> "none", arg |-> <<>>, returned |-> FALSE, ret |-> <<>>]

Init == InitWorld /\ failureMessages = Messages /\ fcall = NoCall

\* The record's message ranges over the whole persisted layout (string | null).
InitRecord == InitWorld /\ failureMessages \in {Messages, AnyMessage} /\ fcall = NoCall

\* ------------------------------------------------------------ CLI actions
\* everest_entry: parse options, call run_everest.  Whether it runs on the main
\* thread, and so installs the SIGINT handler, is first observable when a
\* SIGINT arrives: keyboard_interrupt draws it there.
everest_entry(c, new_run, kill) ==
    /\ cli[c].pc \in {"idle", "done"}
    /\ runs < MaxRuns
    /\ runs' = runs + 1
    /\ cli' = [cli EXCEPT ![c] = [IdleCli EXCEPT !.pc = "run_everest",
                                                  !.new_run = new_run,
                                                  !.kill = kill]]
    /\ UNCHANGED <<world, failureMessages, fcall>>

\* run_everest, options.kill: _kill_everest prints and run_everest returns.
run_everest_kill(c) ==
    /\ cli[c].pc = "run_everest"
    /\ cli[c].kill
    /\ cli' = [cli EXCEPT ![c] =
            Ended([@ EXCEPT !.exit = "zero",
                            !.out = Say(c, KillRemovedText)])]
    /\ UNCHANGED <<world, runs, failureMessages, fcall>>

\* Variant: _kill_everest is called but run_everest does not return after it.
everserver_status_despite_kill(c) ==
    /\ cli[c].pc = "run_everest"
    /\ cli' = [cli EXCEPT ![c].pc = "server_is_running", ![c].server_state = record]
    /\ UNCHANGED <<world, runs, failureMessages, fcall>>

\* server_state = everserver_status(options.config)
everserver_status(c) ==
    /\ cli[c].pc = "run_everest"
    /\ ~cli[c].kill
    /\ cli' = [cli EXCEPT ![c].pc = "server_is_running", ![c].server_state = record]
    /\ UNCHANGED <<world, runs, failureMessages, fcall>>

\* Variant: the never_run / --new-run test comes before the liveness probe.
run_everest_branch_new_run_first(c) ==
    /\ cli[c].pc = "server_is_running"
    /\ cli' = [cli EXCEPT ![c] =
            IF @.server_state.status = never_run \/ @.new_run
            THEN Branched(@, "makedirs_if_needed")
            ELSE IF ServerIsRunning
            THEN Ended([@ EXCEPT !.exit = "zero",
                                 !.out = Say(c, AlreadyRunningText)])
            ELSE Branched(@, "report_on_previous_run")]
    /\ UNCHANGED <<world, runs, failureMessages, fcall>>

\* Variant: every run that finds no server launches, --new-run or not.
run_everest_branch_always_launch(c) ==
    /\ cli[c].pc = "server_is_running"
    /\ cli' = [cli EXCEPT ![c] =
            IF ServerIsRunning
            THEN Ended([@ EXCEPT !.exit = "zero",
                                 !.out = Say(c, AlreadyRunningText)])
            ELSE Branched(@, "makedirs_if_needed")]
    /\ UNCHANGED <<world, runs, failureMessages, fcall>>

\* if server_is_running(..) / elif never_run or new_run / else
run_everest_branch(c) ==
    /\ cli[c].pc = "server_is_running"
    /\ cli' = [cli EXCEPT ![c] =
            IF ServerIsRunning
            THEN Ended([@ EXCEPT !.exit = "zero",
                                 !.out = Say(c, AlreadyRunningText)])
            ELSE IF @.server_state.status = never_run \/ @.new_run
            THEN Branched(@, "makedirs_if_needed")
            ELSE Branched(@, "report_on_previous_run")]
    /\ UNCHANGED <<world, runs, failureMessages, fcall>>

\* makedirs_if_needed(output_dir, roll_if_exists=True): an existing output
\* directory is moved away, the StatusRecord in it with it.
makedirs_if_needed(c) ==
    /\ cli[c].pc = "makedirs_if_needed"
    /\ outdir' = TRUE
    /\ rolls' = IF outdir THEN rolls + 1 ELSE rolls
    /\ record' = IF outdir THEN FreshRecord ELSE record
    /\ cli' = [cli EXCEPT ![c].pc = "open_storage",
                          ![c].trace = Logged(c, "makedirs_if_needed")]
    /\ UNCHANGED <<jobs, storage, runs, failureMessages, fcall>>

\* with open_storage(ert_config.ens_path, "w") as storage:
open_storage(c) ==
    /\ cli[c].pc = "open_storage"
    /\ storage' = storage \cup {c}
    /\ cli' = [cli EXCEPT ![c].pc = "start_server",
                          ![c].trace = Logged(c, "open_storage")]
    /\ UNCHANGED <<record, outdir, rolls, jobs, runs, failureMessages, fcall>>

\* context = start_server(options.config, ert_config, storage)
start_server(c) ==
    /\ cli[c].pc = "start_server"
    /\ jobs' = [jobs EXCEPT ![NextJob] = "starting"]
    /\ record' = ServerLauncherRecord
    /\ cli' = [cli EXCEPT ![c].pc = "wait_for_server",
                          ![c].context = NextJob,
                          ![c].elapsed = 0,
                          ![c].out = Say(c, "Waiting for server ..."),
                          ![c].trace = Logged(c, "start_server")]
    /\ UNCHANGED <<outdir, rolls, storage, runs, failureMessages, fcall>>

\* Variant: the wait is started again whenever it times out.
wait_for_server_retry(c) ==
    /\ cli[c].pc = "wait_for_server"
    /\ LET r == ReadinessWaiter(cli[c].elapsed, Timeout) IN
         cli' = [cli EXCEPT ![c] =
            IF r = "pending"
            THEN [@ EXCEPT !.elapsed = @ + PollInterval]
            ELSE IF r = "timedOut"
            THEN [@ EXCEPT !.elapsed = 0]
            ELSE [@ EXCEPT !.wait_result = r,
                           !.elapsed = 0,
                           !.pc = "run_detached_monitor",
                           !.out = Say(c, "Everest server found!"),
                           !.trace = Logged(c, "wait_for_server")]]
    /\ UNCHANGED <<world, runs, failureMessages, fcall>>

\* wait_for_server(options.config, timeout=600, context=context); its result
\* is not used (wait_result only keeps it for the properties below); then
\* print("Everest server found!").
wait_for_server(c) ==
    /\ cli[c].pc = "wait_for_server"
    /\ LET r == ReadinessWaiter(cli[c].elapsed, Timeout) IN
         cli' = [cli EXCEPT ![c] =
            IF r = "pending"
            THEN [@ EXCEPT !.elapsed = @ + PollInterval]
            ELSE [@ EXCEPT !.wait_result = r,
                           !.elapsed = 0,
                           !.pc = "run_detached_monitor",
                           !.out = Say(c, "Everest server found!"),
                           !.trace = Logged(c, "wait_for_server")]]
    /\ UNCHANGED <<world, runs, failureMessages, fcall>>

\* run_detached_monitor(options.config, show_all_jobs=...)
run_detached_monitor(c) ==
    /\ cli[c].pc = "run_detached_monitor"
    /\ MonitorReturns
    /\ cli' = [cli EXCEPT ![c].pc = "wait_for_context",
                          ![c].wait_result = "none",
                          ![c].trace = Logged(c, "run_detached_monitor")]
    /\ UNCHANGED <<world, runs, failureMessages, fcall>>

\* wait_for_context(); leaving the `with` blocks closes the storage.
wait_for_context(c) ==
    /\ cli[c].pc = "wait_for_context"
    /\ ContextEnded(cli[c].context)
    /\ storage' = storage \ {c}
    /\ cli' = [cli EXCEPT ![c].pc = "final_status",
                          ![c].trace = Logged(c, "wait_for_context")]
    /\ UNCHANGED <<record, outdir, rolls, jobs, runs, failureMessages, fcall>>

\* server_state = everserver_status(..); raise SystemExit(message) on failed,
\* else print the message when there is one.
run_everest_exit(c) ==
    /\ cli[c].pc = "final_status"
    /\ cli' = [cli EXCEPT ![c] =
            IF record.status = failed
            THEN Ended([@ EXCEPT !.observed = record,
                                 !.raised = "SystemExit",
                                 !.exit = SystemExitCode(record.message),
                                 !.out = Say(c, record.message)])
            ELSE Ended([@ EXCEPT !.observed = record,
                                 !.exit = "zero",
                                 !.out = IF record.message # NoMessage
                                         THEN Say(c, record.message) ELSE @])]
    /\ UNCHANGED <<world, runs, failureMessages, fcall>>

\* else: report_on_previous_run(options.config)
report_on_previous_run(c) ==
    /\ cli[c].pc = "report_on_previous_run"
    /\ cli' = [cli EXCEPT ![c] = Ended([@ EXCEPT !.observed = record,
                                                 !.exit = ReportOutcome(record),
                                                 !.out = Say(c, record.message)])]
    /\ UNCHANGED <<world, runs, failureMessages, fcall>>

\* Variant: the interrupt also takes the launched job down.
keyboard_interrupt_kills_job(c, main_thread) ==
    /\ cli[c].pc \in {"wait_for_server", "run_detached_monitor", "wait_for_context"}
    /\ cli' = [cli EXCEPT ![c] = IF main_thread THEN HandleKeyboardInterrupt(c)
                                                   ELSE DefaultKeyboardInterrupt(c)]
    /\ storage' = storage \ {c}
    /\ jobs' = [jobs EXCEPT ![cli[c].context] = "exited"]
    /\ record' = [status |-> stopped, message |-> NoMessage]
    /\ UNCHANGED <<outdir, rolls, runs, failureMessages, fcall>>

\* SIGINT while the CLI waits or monitors: the handler everest_entry installed
\* when on the main thread, or Python's default KeyboardInterrupt otherwise.
keyboard_interrupt(c, main_thread) ==
    /\ cli[c].pc \in {"wait_for_server", "run_detached_monitor", "wait_for_context"}
    /\ cli' = [cli EXCEPT ![c] = IF main_thread THEN HandleKeyboardInterrupt(c)
                                                   ELSE DefaultKeyboardInterrupt(c)]
    /\ storage' = storage \ {c}
    /\ UNCHANGED <<record, outdir, rolls, jobs, runs, failureMessages, fcall>>

\* ------------------------------------------------- detached job (lifecycle)
\* STARTING --engineReady--> RUNNING
EngineReady(j) ==
    /\ jobs[j] = "starting"
    /\ jobs' = [jobs EXCEPT ![j] = "serving"]
    /\ record' = [status |-> running, message |-> NoMessage]
    /\ UNCHANGED <<outdir, rolls, storage, runs, failureMessages, fcall, cli>>

\* an error during STARTING: FAILED with a diagnostic message
StartupError(j, m) ==
    /\ jobs[j] = "starting"
    /\ jobs' = [jobs EXCEPT ![j] = "exited"]
    /\ record' = [status |-> failed, message |-> m]
    /\ UNCHANGED <<outdir, rolls, storage, runs, failureMessages, fcall, cli>>

\* RUNNING --success--> COMPLETED
EngineSuccess(j, m) ==
    /\ jobs[j] = "serving"
    /\ jobs' = [jobs EXCEPT ![j] = "exited"]
    /\ record' = [status |-> completed, message |-> m]
    /\ UNCHANGED <<outdir, rolls, storage, runs, failureMessages, fcall, cli>>

\* RUNNING --engineFailure--> FAILED
EngineFailure(j, m) ==
    /\ jobs[j] = "serving"
    /\ jobs' = [jobs EXCEPT ![j] = "exited"]
    /\ record' = [status |-> failed, message |-> m]
    /\ UNCHANGED <<outdir, rolls, storage, runs, failureMessages, fcall, cli>>

\* intent=kill: the process is signalled and acknowledges with STOPPED
KillAcknowledged(j, m) ==
    /\ jobs[j] \in {"starting", "serving"}
    /\ jobs' = [jobs EXCEPT ![j] = "exited"]
    /\ record' = [status |-> stopped, message |-> m]
    /\ UNCHANGED <<outdir, rolls, storage, runs, failureMessages, fcall, cli>>

\* ------------------------------------------------------------------- Next
Next ==
    \/ \E c \in CLIs, new_run \in BOOLEAN, kill \in BOOLEAN :
           everest_entry(c, new_run, kill)
    \/ \E c \in CLIs : run_everest_kill(c)
    \/ \E c \in CLIs : everserver_status(c)
    \/ \E c \in CLIs : run_everest_branch(c)
    \/ \E c \in CLIs : makedirs_if_needed(c)
    \/ \E c \in CLIs : open_storage(c)
    \/ \E c \in CLIs : start_server(c)
    \/ \E c \in CLIs : wait_for_server(c)
    \/ \E c \in CLIs : run_detached_monitor(c)
    \/ \E c \in CLIs : wait_for_context(c)
    \/ \E c \in CLIs : run_everest_exit(c)
    \/ \E c \in CLIs : report_on_previous_run(c)
    \/ \E c \in CLIs, main_thread \in BOOLEAN : keyboard_interrupt(c, main_thread)
    \/ \E j \in Jobs : EngineReady(j)
    \/ \E j \in Jobs, m \in failureMessages : StartupError(j, m)
    \/ \E j \in Jobs, m \in AnyMessage : EngineSuccess(j, m)
    \/ \E j \in Jobs, m \in failureMessages : EngineFailure(j, m)
    \/ \E j \in Jobs, m \in AnyMessage : KillAcknowledged(j, m)

Spec == Init /\ [][Next]_vars

SpecRecord == InitRecord /\ [][Next]_vars
\* CLI processes are scheduled: a process inside wait_for_server keeps polling.
\* Nothing is assumed of the detached job, which may hang.
FairSpec == Spec /\ \A c \in CLIs : WF_vars(wait_for_server(c))

\* ============================================================== properties
LiveJobs == {j \in Jobs : jobs[j] \in {"starting", "serving"}}

\* C1: a run (with or without --new-run) that finds the job active (record
\* STARTING or RUNNING, server_is_running true) only prints the monitor/kill
\* hint: no roll, no storage, no start_server, StatusRecord unchanged.
C1_RelaunchGuard ==
    [][\A c \in CLIs :
        (/\ run_everest_branch(c)
         /\ ServerIsRunning
         /\ cli[c].server_state.status \in Active)
        => /\ UNCHANGED world
           /\ cli'[c].pc = "done"
           /\ cli'[c].exit = "zero"
           /\ cli'[c].trace = <<>>
           /\ cli'[c].out = <<AlreadyRunningText>>]_vars

C1_Witness ==
    \E c \in CLIs :
        /\ cli[c].pc = "done"
        /\ cli[c].new_run
        /\ cli[c].out = <<AlreadyRunningText>>
        /\ ServerIsRunning
        /\ record.status = running

\* C2: at most one live job per JobIdentity at any time, whatever the
\* interleaving of concurrent run invocations.
C2_AtMostOneLiveJob == Cardinality(LiveJobs) <= 1

\* C3: the launch path is entered only when the record read by the invocation
\* is NEVER_RUN or terminal, and the directory is rolled only over such a
\* record; --new-run never launches over STARTING or RUNNING.
C3_LaunchOnlyOverNeverRunOrTerminal ==
    [][\A c \in CLIs :
        /\ (run_everest_branch(c) /\ cli'[c].pc = "makedirs_if_needed")
              => cli[c].server_state.status \notin Active
        /\ makedirs_if_needed(c) => record.status \notin Active]_vars

\* C4: a completed run that observed FAILED ends non-zero with the stored
\* message surfaced, whatever the message (null included); one that observed
\* COMPLETED or STOPPED ends with zero.
C4_ExitReflectsStatus ==
    \A c \in CLIs :
        (cli[c].pc = "done" /\ cli[c].observed # Unread) =>
            /\ cli[c].observed.status = failed
                  => /\ cli[c].exit = "nonzero"
                     /\ cli[c].out # <<>>
                     /\ cli[c].out[Len(cli[c].out)] = cli[c].observed.message
            /\ cli[c].observed.status \in {completed, stopped}
                  => cli[c].exit = "zero" /\ cli[c].raised = "none"

\* C5: with a terminal record read, no job active and no --new-run, run only
\* reports the prior result and changes nothing; with --new-run it takes the
\* launch path.
C5_ReportPriorResult ==
    [][\A c \in CLIs :
        /\ (/\ run_everest_branch(c)
            /\ ~ServerIsRunning
            /\ cli[c].server_state.status \in Terminal)
           => /\ UNCHANGED world
              /\ cli'[c].trace = <<>>
              /\ cli'[c].pc = IF cli[c].new_run THEN "makedirs_if_needed"
                                                ELSE "report_on_previous_run"
        /\ report_on_previous_run(c)
           => /\ UNCHANGED world
              /\ cli'[c].pc = "done"
              /\ cli'[c].trace = <<>>
              /\ cli'[c].observed = record]_vars

C5_Witness ==
    \E c \in CLIs :
        /\ cli[c].pc = "done"
        /\ ~cli[c].new_run
        /\ ~cli[c].kill
        /\ cli[c].observed.status = failed
        /\ cli[c].exit = "nonzero"
        /\ cli[c].raised = "none"
        /\ record = cli[c].observed
        /\ LiveJobs = {}
        /\ rolls = 0

\* C6: run --kill, with or without --new-run and in every job state, prints
\* the deprecation message and returns: the record is not read or written,
\* the server neither probed nor signalled, the directory untouched, no launch.
C6_KillFlagNoSideEffects ==
    [][\A c \in CLIs :
        (cli[c].pc = "run_everest" /\ cli[c].kill /\ cli'[c] # cli[c])
        => /\ UNCHANGED world
           /\ cli'[c].pc = "done"
           /\ cli'[c].exit = "zero"
           /\ cli'[c].server_state = Unread
           /\ cli'[c].observed = Unread
           /\ cli'[c].trace = <<>>
           /\ cli'[c].out = <<KillRemovedText>>]_vars

C6_Witness ==
    \E c \in CLIs :
        /\ cli[c].pc = "done"
        /\ cli[c].kill
        /\ cli[c].new_run
        /\ cli[c].out = <<KillRemovedText>>
        /\ ServerIsRunning
        /\ record.status = running

\* C7: on the launch path the calls happen in the order makedirs,
\* open_storage, start_server, wait_for_server, run_detached_monitor,
\* wait_for_context, final status read; and the monitor runs only after
\* wait_for_server returned successfully.
LaunchOrder == <<"makedirs_if_needed", "open_storage", "start_server",
                 "wait_for_server", "run_detached_monitor", "wait_for_context">>
IsPrefix(s, t) == Len(s) <= Len(t) /\ \A i \in 1..Len(s) : s[i] = t[i]
C7_LaunchWaitMonitorOrder ==
    \A c \in CLIs :
        /\ IsPrefix(cli[c].trace, LaunchOrder)
        /\ cli[c].pc = "final_status" => cli[c].trace = LaunchOrder
        /\ cli[c].pc = "run_detached_monitor" => cli[c].wait_result = "ready"

\* C8: SIGINT while the CLI waits or monitors only ends that CLI: the
\* StatusRecord and every detached job stay as they are.
C8_InterruptLeavesJob ==
    [][\A c \in CLIs :
        (\E main_thread \in BOOLEAN : keyboard_interrupt(c, main_thread))
        => /\ record' = record
           /\ jobs' = jobs
           /\ outdir' = outdir /\ rolls' = rolls
           /\ cli'[c].pc = "done"]_vars

C8_Witness ==
    \E c \in CLIs :
        /\ cli[c].pc = "done"
        /\ cli[c].raised = "SystemExit"
        /\ cli[c].out = <<"Waiting for server ...", "Everest server found!",
                          "still running in the background">>
        /\ ServerIsRunning
        /\ record.status = running

\* C9: within one StatusRecord (no roll in between) the status only moves
\* forward: nothing leaves a terminal status, RUNNING is entered only from
\* STARTING, FAILED carries a message, nothing returns to NEVER_RUN.
Rank(st) == CASE st = never_run -> 0 [] st = starting -> 1 [] st = running -> 2
              [] OTHER -> 3
C9_LifecycleForward ==
    [][(rolls' = rolls /\ record'.status # record.status)
        => /\ Rank(record'.status) > Rank(record.status)
           /\ record'.status = running => record.status = starting
           /\ record'.status = failed => record'.message # NoMessage]_vars

\* C10: wait_for_server always ends: ready, or failed as soon as the record
\* is FAILED before readiness, or timedOut once the budget of 600 has elapsed;
\* no poll, a timeout included, changes the StatusRecord.
C10_WaitEnds ==
    /\ \A c \in CLIs : (cli[c].pc = "wait_for_server") ~> (cli[c].pc # "wait_for_server")
    /\ [][\A c \in CLIs :
           wait_for_server(c)
           => /\ UNCHANGED world
              /\ cli'[c].wait_result \in {"none", "ready", "failed", "timedOut"}
              /\ (cli'[c].pc = "wait_for_server")
                    <=> (~ServerIsRunning /\ record.status # failed
                         /\ cli[c].elapsed < Timeout)
              /\ (cli'[c].pc = "wait_for_server")
                    => cli'[c].elapsed > cli[c].elapsed
              /\ (~ServerIsRunning /\ record.status = failed)
                    => cli'[c].wait_result = "failed"
              /\ cli'[c].wait_result = "timedOut"
                    => (cli[c].elapsed >= Timeout /\ record'.status # failed)]_vars

C10_Witness ==
    \E c \in CLIs :
        /\ cli[c].pc = "run_detached_monitor"
        /\ cli[c].wait_result = "timedOut"
        /\ record.status = starting
        /\ LiveJobs # {}

\* ==================================================== configuration functions
\* Values of a raw configuration field.  Reals are held in hundredths.
None == [tag |-> "none", v |-> 0]
IntVal(n) == [tag |-> "int", v |-> n]
FloatVal(h) == [tag |-> "float", v |-> h]
Text == [tag |-> "str", v |-> 0]
\* 1.0 in hundredths
One == 100

\* ------------------------------------------------------------- CVaRConfig
\* Raw CVaR sections: both fields absent/None, valid, out of range or of the
\* wrong type, with or without a field the model does not declare.
CVaRInputs ==
    [number_of_realizations : {None, IntVal(-1), IntVal(3), Text},
     percentile : {None, FloatVal(-50), FloatVal(0), FloatVal(50), FloatVal(One), FloatVal(150), Text},
     extra : BOOLEAN]

Error(loc, msg) == [loc |-> loc, msg |-> msg]
MutexError == Error(<<>>, "Invalid CVaR section; Specify only one of the following: number_of_realizations, percentile")
IntTypeError == Error(<<"number_of_realizations">>, "Input should be a valid integer")
FloatTypeError == Error(<<"percentile">>, "Input should be a valid number")
GeError == Error(<<"percentile">>, "Input should be greater than or equal to 0")
LeError == Error(<<"percentile">>, "Input should be less than or equal to 1")
ExtraError == Error(<<"extra">>, "Extra inputs are not permitted")

\* Variant: the test is `not (has_nreals or has_percentile)`.
validate_mutex_nreals_percentile_or(values) ==
    LET has_nreals == values.number_of_realizations.tag # "none"
        has_percentile == values.percentile.tag # "none"
    IN  IF ~(has_nreals \/ has_percentile) THEN "ValueError" ELSE "values"

\* validate_mutex_nreals_percentile: raises ValueError unless exactly one of
\* the two is not None, else returns the values.
validate_mutex_nreals_percentile(values) ==
    LET has_nreals == values.number_of_realizations.tag # "none"
        has_percentile == values.percentile.tag # "none"
    IN  IF ~(has_nreals # has_percentile) THEN "ValueError" ELSE "values"

\* number_of_realizations: Optional[int]
NRealsErrors(values) ==
    IF values.number_of_realizations.tag \in {"none", "int"} THEN <<>>
    ELSE <<IntTypeError>>

\* percentile: Optional[float], ge=0.0, le=1.0
PercentileErrors(values) ==
    LET p == values.percentile IN
    IF p.tag = "none" THEN <<>>
    ELSE IF p.tag = "str" THEN <<FloatTypeError>>
    ELSE IF p.v < 0 THEN <<GeError>>
    ELSE IF p.v > One THEN <<LeError>>
    ELSE <<>>

\* model_config = ConfigDict(extra="forbid")
ExtraErrors(values) == IF values.extra THEN <<ExtraError>> ELSE <<>>

\* The field validation of the model: every field error is collected.
FieldErrors(values) == NRealsErrors(values) \o PercentileErrors(values) \o ExtraErrors(values)

\* Variant: the model validator runs with mode="after", behind the fields.
CVaRConfig_model_validate_after(values) ==
    IF FieldErrors(values) # <<>> THEN FieldErrors(values)
    ELSE IF validate_mutex_nreals_percentile(values) = "ValueError" THEN <<MutexError>>
    ELSE <<>>

\* CVaRConfig.model_validate: the mode="before" model validator runs first; its
\* ValueError is the only error reported; the fields are validated only when
\* it returned.  The result is the list of errors (empty: accepted).
CVaRConfig_model_validate(values) ==
    IF validate_mutex_nreals_percentile(values) = "ValueError" THEN <<MutexError>>
    ELSE FieldErrors(values)

validate_cvar ==
    /\ fcall.fn = "CVaRConfig"
    /\ ~fcall.returned
    /\ fcall' = [fcall EXCEPT !.returned = TRUE, !.ret = CVaRConfig_model_validate(fcall.arg)]
    /\ UNCHANGED <<world, runs, failureMessages, cli>>

\* ---------------------------------------------------- objective functions
MaxObjectives == 2
Names == {"a", "b", "c"}
Weights == {None, FloatVal(-30), FloatVal(0), FloatVal(One), FloatVal(300)}
Normalizations == {None, FloatVal(-12500), FloatVal(0), FloatVal(One)}

\* Objective lists of a raw configuration: 1..MaxObjectives objectives with
\* distinct names, each with or without a weight and a normalization.
ObjectiveLists ==
    {objs \in UNION {[1..n -> [name : Names, weight : Weights, normalization : Normalizations]] :
                        n \in 1..MaxObjectives} :
        \A i, j \in DOMAIN objs : i # j => objs[i].name # objs[j].name}

WeightError(i) == Error(<<"objective_functions", i, "weight">>, "Input should be greater than 0")
NormalizationError(i) == Error(<<"objective_functions", i, "normalization">>, "Normalization value cannot be zero")
WeightPresenceError == Error(<<"objective_functions">>, "Weight should be given either for all of the objectives or for none of them")

Declared(objs) == {i \in DOMAIN objs : objs[i].weight # None}

\* weight: optional, > 0
WeightErrors(objs, i) ==
    IF objs[i].weight # None /\ objs[i].weight.v <= 0 THEN <<WeightError(i)>> ELSE <<>>

\* Variant: a negative normalization is rejected like zero.
NormalizationErrors_positive(objs, i) ==
    IF objs[i].normalization # None /\ objs[i].normalization.v <= 0
    THEN <<NormalizationError(i)>> ELSE <<>>

\* normalization: optional, nonzero
NormalizationErrors(objs, i) ==
    IF objs[i].normalization # None /\ objs[i].normalization.v = 0
    THEN <<NormalizationError(i)>> ELSE <<>>

\* Variant: a list in which no objective declares a weight is rejected too.
WeightPresenceErrors_required(objs) ==
    IF Declared(objs) # DOMAIN objs THEN <<WeightPresenceError>> ELSE <<>>

\* weights on all objectives or on none
WeightPresenceErrors(objs) ==
    IF Declared(objs) # {} /\ Declared(objs) # DOMAIN objs
    THEN <<WeightPresenceError>> ELSE <<>>

RECURSIVE StructuralErrors(_, _)
StructuralErrors(objs, i) ==
    IF i > Len(objs) THEN <<>>
    ELSE WeightErrors(objs, i) \o NormalizationErrors(objs, i) \o StructuralErrors(objs, i + 1)

\* lint_config_dict on the objective list: the per-objective rules first,
\* then the rule across objectives; every violation is returned.
lint_config_dict(objs) == StructuralErrors(objs, 1) \o WeightPresenceErrors(objs)

RECURSIVE Gcd(_, _)
Gcd(a, b) == IF b = 0 THEN a ELSE Gcd(b, a % b)
\* the rational n/d in lowest terms
Frac(n, d) == [num |-> n \div Gcd(n, d), den |-> d \div Gcd(n, d)]

RECURSIVE SumOfWeights(_, _)
SumOfWeights(objs, i) ==
    IF i > Len(objs) THEN 0 ELSE objs[i].weight.v + SumOfWeights(objs, i + 1)

\* Variant: the declared weights are handed on as they are.
OutputWeight_raw(objs, i) ==
    IF objs[i].weight = None THEN Frac(1, Len(objs))
    ELSE Frac(objs[i].weight.v, One)

\* w_i / sum of the weights; the equal split when no weight is declared
OutputWeight(objs, i) ==
    IF objs[i].weight = None THEN Frac(1, Len(objs))
    ELSE Frac(objs[i].weight.v, SumOfWeights(objs, 1))

\* the normalization when present, else the neutral scale 1
OutputScale(objs, i) ==
    IF objs[i].normalization = None THEN FloatVal(One) ELSE objs[i].normalization

\* everest2ropt on the objective list of a validated configuration
everest2ropt(objs) ==
    [names |-> [i \in DOMAIN objs |-> objs[i].name],
     weights |-> [i \in DOMAIN objs |-> OutputWeight(objs, i)],
     scales |-> [i \in DOMAIN objs |-> OutputScale(objs, i)]]

lint ==
    /\ fcall.fn = "lint_config_dict"
    /\ ~fcall.returned
    /\ fcall' = [fcall EXCEPT !.returned = TRUE, !.ret = lint_config_dict(fcall.arg)]
    /\ UNCHANGED <<world, runs, failureMessages, cli>>

translate ==
    /\ fcall.fn = "everest2ropt"
    /\ ~fcall.returned
    /\ fcall' = [fcall EXCEPT !.returned = TRUE, !.ret = everest2ropt(fcall.arg)]
    /\ UNCHANGED <<world, runs, failureMessages, cli>>

\* ------------------------------------------------ parse_forward_model_file
MaxErrors == 2
\* Entries of ValidationError.errors(): the loc of an error raised for the
\* model as a whole is the empty tuple.
Locs == {<<>>, <<"name">>, <<"steps", "name">>}
ErrorEntries == [loc : Locs, input : {"x"}, msg : {"Field required"}]
ErrorLists == UNION {[1..n -> ErrorEntries] : n \in 1..MaxErrors}

\* What the hook parse_forward_model_schema does: return its result list or
\* raise.
HookOutcomes ==
    [kind : {"return"}, res : {<<>>, <<"model">>}]
    \cup [kind : {"ValidationError"}, errors : ErrorLists]
    \cup [kind : {"ValueError"}, text : {"bad file"}]

\* message.format(error=...): the caller's template with the details filled in
Format(message, error) == [template |-> message, error |-> error]
\* f"{error['loc'][0]}: {error['input']} -> {error['msg']}"
Entry(error) == [field |-> error.loc[1], input |-> error.input, msg |-> error.msg]
Raise(type, text, cause) == [kind |-> "raise", type |-> type, text |-> text, cause |-> cause]
Return(value) == [kind |-> "return", value |-> value]
\* an exception raised inside the handler, before its `from ve` is reached
NoCause == [kind |-> "none"]

\* res.pop() drops the last element; res itself is returned
Pop(res) == SubSeq(res, 1, Len(res) - 1)

\* parse_forward_model_file(path, schema, message) for one outcome of the hook
parse_forward_model_file(hook, message) ==
    IF hook.kind = "return"
    THEN Return(IF hook.res # <<>> THEN Pop(hook.res) ELSE hook.res)
    ELSE IF hook.kind = "ValidationError"
    THEN IF \E i \in DOMAIN hook.errors : hook.errors[i].loc = <<>>
         THEN Raise("IndexError", "tuple index out of range", NoCause)
         ELSE Raise("ValueError",
                    Format(message, [i \in DOMAIN hook.errors |-> Entry(hook.errors[i])]),
                    hook)
    ELSE Raise("ValueError", Format(message, hook.text), hook)

parse ==
    /\ fcall.fn = "parse_forward_model_file"
    /\ ~fcall.returned
    /\ fcall' = [fcall EXCEPT !.returned = TRUE,
                              !.ret = parse_forward_model_file(fcall.arg, "template")]
    /\ UNCHANGED <<world, runs, failureMessages, cli>>

\* everest2ropt is given configurations that passed the validation.
Validated == {objs \in ObjectiveLists : lint_config_dict(objs) = <<>>}

Calls ==
    [fn : {"CVaRConfig"}, arg : CVaRInputs, returned : {FALSE}, ret : {<<>>}]
    \cup [fn : {"lint_config_dict"}, arg : ObjectiveLists, returned : {FALSE}, ret : {<<>>}]
    \cup [fn : {"everest2ropt"}, arg : Validated, returned : {FALSE}, ret : {<<>>}]
    \cup [fn : {"parse_forward_model_file"}, arg : HookOutcomes, returned : {FALSE}, ret : {<<>>}]

InitConfig == InitWorld /\ failureMessages = Messages /\ fcall \in Calls

NextConfig ==
    \/ validate_cvar
    \/ lint
    \/ translate
    \/ parse

SpecConfig == InitConfig /\ [][NextConfig]_vars

\* ----------------------------------------------------- properties (config)
HasNReals(values) == values.number_of_realizations.tag # "none"
HasPercentile(values) == values.percentile.tag # "none"
ExactlyOne(values) == HasNReals(values) # HasPercentile(values)
Reported(e) == \E i \in 1..Len(fcall.ret) : fcall.ret[i] = e
CVaRReturned == fcall.fn = "CVaRConfig" /\ fcall.returned

\* C11: a CVaR section is rejected with the exclusivity error exactly when both
\* or neither of number_of_realizations and percentile are set (not None); a
\* section with exactly one set, whose fields are otherwise valid, is accepted.
C11_CVaRExclusivity ==
    CVaRReturned =>
        /\ Reported(MutexError) <=> ~ExactlyOne(fcall.arg)
        /\ ~ExactlyOne(fcall.arg) => fcall.ret # <<>>
        /\ (ExactlyOne(fcall.arg) /\ FieldErrors(fcall.arg) = <<>>) => fcall.ret = <<>>

C11_Witness ==
    /\ CVaRReturned
    /\ fcall.arg.number_of_realizations = None
    /\ fcall.arg.percentile = FloatVal(50)
    /\ ~fcall.arg.extra
    /\ fcall.ret = <<>>

\* C12: every rule an input violates is in the reported list, also when it
\* violates several at once.
C12_AllViolationsReported ==
    CVaRReturned =>
        /\ ~ExactlyOne(fcall.arg) => Reported(MutexError)
        /\ \A i \in 1..Len(FieldErrors(fcall.arg)) : Reported(FieldErrors(fcall.arg)[i])

\* C16: an input that violates the exclusivity gets the exclusivity error and
\* nothing else: no field-level error (range, type, unknown field) is reported.
C16_ExclusivityFirst ==
    (CVaRReturned /\ ~ExactlyOne(fcall.arg)) => fcall.ret = <<MutexError>>

C16_Witness ==
    /\ CVaRReturned
    /\ fcall.arg.number_of_realizations = Text
    /\ fcall.arg.percentile = FloatVal(150)
    /\ fcall.arg.extra
    /\ fcall.ret = <<MutexError>>

LintReturned == fcall.fn = "lint_config_dict" /\ fcall.returned
TranslateReturned == fcall.fn = "everest2ropt" /\ fcall.returned

\* C13: the error 'Weight should be given either for all of the objectives or
\* for none of them' is reported exactly when some but not all objectives
\* declare a weight.
C13_WeightAllOrNothing ==
    LintReturned =>
        (Reported(WeightPresenceError) <=>
            (\E i \in DOMAIN fcall.arg : fcall.arg[i].weight # None)
            /\ (\E i \in DOMAIN fcall.arg : fcall.arg[i].weight = None))

C13_Witness ==
    /\ LintReturned
    /\ Len(fcall.arg) = 2
    /\ fcall.arg[1].weight = FloatVal(One)
    /\ fcall.arg[2].weight = None
    /\ Reported(WeightPresenceError)

\* C14: a declared weight is accepted exactly when it is > 0; a declared
\* normalization is accepted exactly when it is nonzero: zero is rejected with
\* 'Normalization value cannot be zero', a negative value is accepted.
C14_WeightAndNormalizationRules ==
    LintReturned =>
        \A i \in DOMAIN fcall.arg :
            /\ Reported(WeightError(i)) <=>
                (fcall.arg[i].weight # None /\ ~(fcall.arg[i].weight.v > 0))
            /\ Reported(NormalizationError(i)) <=>
                (fcall.arg[i].normalization # None /\ fcall.arg[i].normalization.v = 0)

C14_Witness ==
    /\ LintReturned
    /\ Len(fcall.arg) = 2
    /\ fcall.arg[1].weight = FloatVal(One)
    /\ fcall.arg[1].normalization = FloatVal(-12500)
    /\ fcall.arg[2].weight = FloatVal(300)
    /\ fcall.arg[2].normalization = None
    /\ fcall.ret = <<>>

RECURSIVE FracSum(_, _)
FracSum(ws, i) ==
    IF i > Len(ws) THEN Frac(0, 1)
    ELSE LET rest == FracSum(ws, i + 1)
         IN  Frac(ws[i].num * rest.den + rest.num * ws[i].den, ws[i].den * rest.den)

\* C15: the translation keeps the number of objectives and the names in input
\* order; when every objective declares a weight, output weight i is
\* w_i / (sum of the weights) and the output weights sum to 1; output scale i
\* is the normalization of objective i when it has one.
C15_Translation ==
    TranslateReturned =>
        /\ Len(fcall.ret.names) = Len(fcall.arg)
        /\ Len(fcall.ret.weights) = Len(fcall.arg)
        /\ Len(fcall.ret.scales) = Len(fcall.arg)
        /\ \A i \in DOMAIN fcall.arg :
            /\ fcall.ret.names[i] = fcall.arg[i].name
            /\ fcall.arg[i].normalization # None =>
                    fcall.ret.scales[i] = fcall.arg[i].normalization
        /\ (\A i \in DOMAIN fcall.arg : fcall.arg[i].weight # None) =>
            /\ \A i \in DOMAIN fcall.arg :
                    fcall.ret.weights[i].num * SumOfWeights(fcall.arg, 1)
                        = fcall.arg[i].weight.v * fcall.ret.weights[i].den
            /\ FracSum(fcall.ret.weights, 1) = Frac(1, 1)

C15_Witness ==
    /\ TranslateReturned
    /\ Len(fcall.arg) = 2
    /\ fcall.arg[1].weight = FloatVal(One)
    /\ fcall.arg[1].normalization = FloatVal(One)
    /\ fcall.arg[2].weight = FloatVal(300)
    /\ fcall.ret.weights = <<Frac(1, 4), Frac(3, 4)>>
    /\ fcall.ret.scales[1] = FloatVal(One)

ParseReturned == fcall.fn = "parse_forward_model_file" /\ fcall.returned

\* C17: every ValidationError or ValueError raised by the parse hook leaves
\* parse_forward_model_file as a ValueError whose text is the caller's template
\* filled with the details (one 'field: input -> msg' entry per validation
\* error), chained to the original; it is never swallowed or returned.
C17_ParseFailuresWrapped ==
    (ParseReturned /\ fcall.arg.kind \in {"ValidationError", "ValueError"}) =>
        /\ fcall.ret.kind = "raise"
        /\ fcall.ret.type = "ValueError"
        /\ fcall.ret.cause = fcall.arg
        /\ fcall.ret.text.template = "template"
        /\ fcall.arg.kind = "ValidationError" =>
                Len(fcall.ret.text.error) = Len(fcall.arg.errors)
====
